---- MODULE Spec2Model ----
(***************************************************************************)
(* Retrieval-augmented query pipeline of the constitutional RAG system.    *)
(*                                                                         *)
(*   src/src/indexing.py             VectorDBIndexer.index_chunks          *)
(*   src/src/query_engine_ollama.py  LegalRAGEngineOllama (served engine)  *)
(*   src/src/query_engine.py         LegalRAGEngine (llama-cpp engine)     *)
(*   src/app.py                      get_rag_engine, /api/chat             *)
(*   src/src/chunking.py             LegalDocumentChunker, MetadataEnricher*)
(*                                                                         *)
(* Numbers.  A distance is an integer number of tenths (10 is the cosine   *)
(* distance 1.0).  A similarity is an integer number of twentieths (20 is  *)
(* 1.0), so that 1 - d/2 and 1 - d are both exact.  The distances the      *)
(* index hands out (DistTable) are multiples of 0.5, on which the code's   *)
(* floating-point arithmetic is exact as well.                             *)
(*                                                                         *)
(* Text.  Turkish letters in the program's string literals are written in  *)
(* their ASCII form (secil for the source's "seçil", yas for "yaş").       *)
(***************************************************************************)
EXTENDS Integers, Sequences, FiniteSets, TLC

VARIABLES
    collection,   \* the similarity index: sequence of entries, in insertion order
    rag_engine,   \* app._rag_engine and its two lazily loaded handles
    req,          \* the request being served (op = "none" between requests)
    retrieved,    \* what retrieve() returned for the request
    llm_called,   \* whether the generation provider was invoked for the request
    qresp,        \* what LegalRAGEngineOllama.query returned
    resp,         \* the payload of the /api/chat handler
    call,         \* a library function called directly, with its arguments
    ret,          \* what that call returned (None until it returns)
    global_engine, \* app._rag_engine as an object reference (None until assigned)
    engines,      \* the LegalRAGEngineOllama objects constructed so far
    threads,      \* the server's request threads: position and local variables
    requests      \* number of requests the server has accepted

\* the state of get_rag_engine() and the lazy properties, step by step
lazy_vars == <<global_engine, engines, threads, requests>>

vars == <<collection, rag_engine, req, retrieved, llm_called, qresp, resp,
          call, ret, lazy_vars>>

----------------------------------------------------------------------------
(* Bounds of the model *)

MaxEntries == 3      \* most entries the index holds
MaxTopK == 2         \* largest top_k a direct retrieve() call is given

(* Program constants *)

SIMILARITY_TOP_K == 5

NoGroundingAnswer == "Uzgunum, veritabaninda bu konuyla ilgili bilgi bulunamadi."
GenerationErrorAnswer == "Error generating answer"
GeneratedAnswer == "generated answer"
LowConfidenceWarning == "Low confidence score. Try asking a more specific question."

----------------------------------------------------------------------------
(* Helpers *)

Min(a, b) == IF a <= b THEN a ELSE b
Max(a, b) == IF a >= b THEN a ELSE b
Abs(a) == IF a >= 0 THEN a ELSE -a

\* Python slicing s[:n]
Take(s, n) == SubSeq(s, 1, Min(n, Len(s)))

\* Python int(num/den): truncation toward zero
IntTrunc(num, den) == IF num >= 0 THEN num \div den ELSE -((-num) \div den)

RECURSIVE SumSeq(_)
SumSeq(s) == IF s = <<>> THEN 0 ELSE Head(s) + SumSeq(Tail(s))

RECURSIVE Flatten(_)
Flatten(ss) == IF ss = <<>> THEN <<>> ELSE Head(ss) \o Flatten(Tail(ss))

----------------------------------------------------------------------------
(* External collaborators: embedding provider and similarity index *)

\* Distance the index reports between two embeddings, by how far apart they
\* lie: identical (0.0), orthogonal (1.0), opposite (2.0) and one value past
\* the cosine range (2.5), which the served path has to clamp.
DistTable == <<0, 10, 20, 25>>

\* An embedding is abstracted to its position on a line.
Vecs == 0 .. (Len(DistTable) - 1)

Distance(qv, ev) == DistTable[Abs(qv - ev) + 1]

\* Stable insertion into a list ordered by ascending distance.
RECURSIVE InsertByDistance(_, _)
InsertByDistance(x, s) ==
    IF s = <<>> THEN <<x>>
    ELSE IF x.distance < Head(s).distance THEN <<x>> \o s
    ELSE <<Head(s)>> \o InsertByDistance(x, Tail(s))

\* Stable sort ascending by distance (list.sort / sorted with key=distance).
RECURSIVE SortByDistance(_)
SortByDistance(s) ==
    IF s = <<>> THEN <<>>
    ELSE InsertByDistance(s[Len(s)], SortByDistance(SubSeq(s, 1, Len(s) - 1)))

\* collection.query(query_embeddings=[qv], n_results=n): the n nearest
\* entries, nearest first, each with its id, metadata and distance.
CollectionQuery(coll, qv, n) ==
    Take(SortByDistance(
            [i \in 1 .. Len(coll) |->
                [id |-> coll[i].id,
                 chunk_id |-> coll[i].chunk_id,
                 distance |-> Distance(qv, coll[i].vec)]]),
         n)

----------------------------------------------------------------------------
(* Questions and query expansion *)

\* Sample user questions.
QCapital == "Turkiye Cumhuriyeti'nin baskenti neresidir?"
QDeputyAge == "Milletvekili secilme yasi kactir?"
QPresidentHow == "Cumhurbaskani nasil secilir?"
QPresidentElection == "Cumhurbaskani secimi nasil yapilir?"

Questions == {QCapital, QDeputyAge, QPresidentHow, QPresidentElection}

\* The trigger keywords that occur in query.lower().
LowerKeywords(query) ==
    CASE query = QDeputyAge -> {"milletvekili", "yas", "secil"}
      [] query = QPresidentHow -> {"cumhurbaskani", "secil"}
      [] query = QPresidentElection -> {"cumhurbaskani", "secim"}
      [] OTHER -> {}

\* kw in query.lower()
Contains(query, kw) == kw \in LowerKeywords(query)

\* LegalRAGEngineOllama.retrieve, query expansion
ExpandOllama_rewriteOnly(query) ==
    IF Contains(query, "milletvekili") /\ Contains(query, "yas")
    THEN <<"MADDE 76 secilme yeterliligi">>
    ELSE IF Contains(query, "cumhurbaskani") /\ Contains(query, "secim")
    THEN <<"MADDE 101 cumhurbaskani secim suresi">>
    ELSE <<query>>

ExpandOllama(query) ==
    <<query>> \o
    (IF Contains(query, "milletvekili") /\ Contains(query, "yas")
     THEN <<"MADDE 76 secilme yeterliligi">>
     ELSE IF Contains(query, "cumhurbaskani") /\ Contains(query, "secim")
     THEN <<"MADDE 101 cumhurbaskani secim suresi">>
     ELSE <<>>)

\* LegalRAGEngine.retrieve, query expansion
ExpandLlama(query) ==
    <<query>> \o
    (IF Contains(query, "yas") /\ Contains(query, "secil")
     THEN <<"milletvekili secilme sartlari", "yas sarti secim">>
     ELSE <<>>) \o
    (IF Contains(query, "cumhurbaskani") /\ Contains(query, "secil")
     THEN <<"cumhurbaskani secim usulu", "cumhurbaskani nasil belirlenir">>
     ELSE <<>>)

----------------------------------------------------------------------------
(* LegalRAGEngineOllama *)

\* similarity = max(0.0, min(1.0, 1.0 - (distance / 2.0))), in twentieths
Similarity_unhalved(distance) == Max(0, Min(20, 20 - 2 * distance))

Similarity(distance) == Max(0, Min(20, 20 - distance))

\* The loop over the results of all variants: an entry is appended unless
\* its metadata chunk_id was seen before.
RECURSIVE DedupBySeenIds(_, _, _)
DedupBySeenIds(results, seen_ids, all_results) ==
    IF results = <<>> THEN all_results
    ELSE IF Head(results).chunk_id \in seen_ids
    THEN DedupBySeenIds(Tail(results), seen_ids, all_results)
    ELSE DedupBySeenIds(Tail(results),
                        seen_ids \cup {Head(results).chunk_id},
                        Append(all_results, Head(results)))

\* results of collection.query for each variant, n_results = top_k
VariantResultsOllama(coll, qvec, top_k) ==
    [v \in 1 .. Len(qvec) |-> CollectionQuery(coll, qvec[v], top_k)]

\* all_results.sort(key=distance)
SortResults_unsorted(all_results) == all_results

SortResults(all_results) == SortByDistance(all_results)

\* all_results[:top_k]
Truncate_doubled(all_results, top_k) == Take(all_results, 2 * top_k)

Truncate(all_results, top_k) == Take(all_results, top_k)

RetrieveOllama(coll, qvec, top_k) ==
    Truncate(
        SortResults(
            DedupBySeenIds(Flatten(VariantResultsOllama(coll, qvec, top_k)),
                           {}, <<>>)),
        top_k)

----------------------------------------------------------------------------
(* LegalRAGEngine (llama-cpp) *)

\* 'similarity': 1 - distance, in twentieths
SimilarityLlama(distance) == 20 - 2 * distance

LlamaChunk(r) ==
    [id |-> r.id, chunk_id |-> r.chunk_id, distance |-> r.distance,
     similarity |-> SimilarityLlama(r.distance)]

IdsOf(chunks) == {chunks[i].id : i \in 1 .. Len(chunks)}

IndexOfId(chunks, id) == CHOOSE i \in 1 .. Len(chunks) : chunks[i].id = id

\* all_chunks[chunk_id] = {...} when the id is new or the distance is
\* smaller; a dict keeps the position of a key that is assigned again.
RECURSIVE MergeBest_keepFirst(_, _)
MergeBest_keepFirst(results, all_chunks) ==
    IF results = <<>> THEN all_chunks
    ELSE LET r == Head(results) IN
         IF r.id \notin IdsOf(all_chunks)
         THEN MergeBest_keepFirst(Tail(results), Append(all_chunks, LlamaChunk(r)))
         ELSE MergeBest_keepFirst(Tail(results), all_chunks)

RECURSIVE MergeBestRec(_, _)
MergeBestRec(results, all_chunks) ==
    IF results = <<>> THEN all_chunks
    ELSE LET r == Head(results) IN
         IF r.id \notin IdsOf(all_chunks)
         THEN MergeBestRec(Tail(results), Append(all_chunks, LlamaChunk(r)))
         ELSE LET i == IndexOfId(all_chunks, r.id) IN
              IF r.distance < all_chunks[i].distance
              THEN MergeBestRec(Tail(results),
                                [all_chunks EXCEPT ![i] = LlamaChunk(r)])
              ELSE MergeBestRec(Tail(results), all_chunks)

MergeBest(results, all_chunks) == MergeBestRec(results, all_chunks)

\* results of collection.query for each variant, n_results = top_k * 2
VariantResultsLlama(coll, qvec, top_k) ==
    [v \in 1 .. Len(qvec) |-> CollectionQuery(coll, qvec[v], top_k * 2)]

RetrieveLlama(coll, qvec, top_k) ==
    Truncate(
        SortResults(
            MergeBest(Flatten(VariantResultsLlama(coll, qvec, top_k)), <<>>)),
        top_k)

----------------------------------------------------------------------------
(* LegalRAGEngineOllama.generate and .query *)

\* generate(): the provider's text, or the error text when the provider
\* raises (the exception is caught inside generate).
Generate(fail) ==
    IF fail = "generate" THEN GenerationErrorAnswer ELSE GeneratedAnswer

\* Step 3 of query(): one source descriptor per retrieved chunk
FormatSourcesOllama(chunks) ==
    [i \in 1 .. Len(chunks) |->
        [chunk_id |-> chunks[i].chunk_id,
         distance |-> chunks[i].distance,
         similarity |-> Similarity(chunks[i].distance)]]

\* query() without the early return for an empty retrieval
QueryOllama_noEarlyReturn(user_query, chunks, fail) ==
    [answer |-> Generate(fail),
     sources |-> FormatSourcesOllama(chunks),
     query |-> user_query,
     generated |-> TRUE]

\* query(): the response, and whether generate() was called for it
QueryOllama(user_query, chunks, fail) ==
    IF chunks = <<>>
    THEN [answer |-> NoGroundingAnswer,
          sources |-> <<>>,
          query |-> user_query,
          generated |-> FALSE]
    ELSE [answer |-> Generate(fail),
          sources |-> FormatSourcesOllama(chunks),
          query |-> user_query,
          generated |-> TRUE]

----------------------------------------------------------------------------
(* app.py: /api/chat *)

\* message.strip() on the sample messages
Strip(message) == IF message = "   " THEN "" ELSE message

Messages == {"", "   ", QCapital, QDeputyAge, QPresidentElection}

\* An optional value: <<>> is None, <<v>> is the value v.
None == <<>>
Some(v) == <<v>>

\* similarity of one source: the engine's value when it gave one, else
\* computed from the distance
SourceScore(source) ==
    IF "similarity" \in DOMAIN source
    THEN source.similarity
    ELSE Similarity(IF "distance" \in DOMAIN source THEN source.distance ELSE 5)

FormatSources(sources) ==
    [i \in 1 .. Len(sources) |->
        [score |-> SourceScore(sources[i]),
         similarity_score |-> SourceScore(sources[i])]]

\* confidence = int(avg_score * 100), None without sources.  Scores are in
\* twentieths: avg * 100 = sum * 100 / (20 * n).
Confidence_zeroWhenEmpty(formatted_sources) ==
    IF formatted_sources = <<>> THEN Some(0)
    ELSE Some(IntTrunc(
            SumSeq([i \in 1 .. Len(formatted_sources) |-> formatted_sources[i].score]) * 100,
            20 * Len(formatted_sources)))

Confidence(formatted_sources) ==
    IF formatted_sources = <<>> THEN None
    ELSE Some(IntTrunc(
            SumSeq([i \in 1 .. Len(formatted_sources) |-> formatted_sources[i].score]) * 100,
            20 * Len(formatted_sources)))

\* confidence is not None and confidence < 50
LowConfidence_inclusive(confidence) == confidence # None /\ confidence[1] <= 50

LowConfidence(confidence) == confidence # None /\ confidence[1] < 50

\* the 'warning' field: the advisory text under the same condition, else None
Warning(confidence) ==
    IF confidence # None /\ confidence[1] < 50
    THEN Some(LowConfidenceWarning) ELSE None

ChatPayload(response) ==
    LET formatted_sources == FormatSources(response.sources)
        confidence == Confidence(formatted_sources)
    IN [status |-> 200,
        answer |-> response.answer,
        sources |-> formatted_sources,
        confidence |-> confidence,
        has_sources |-> Len(formatted_sources) > 0,
        low_confidence |-> LowConfidence(confidence),
        warning |-> Warning(confidence)]

ErrorPayload(status, error) == [status |-> status, error |-> error]

----------------------------------------------------------------------------
(* State *)

Idle == [op |-> "none", question |-> "", top_k |-> 0,
         variants |-> <<>>, qvec |-> <<>>, fail |-> "none"]

NoResponse == [status |-> 0]
NoQueryResponse == [answer |-> "", sources |-> <<>>, query |-> "", generated |-> FALSE]
NoCall == [fn |-> "none"]

MaxRequests == 3     \* requests the server accepts

\* The request threads of the server: two, the least that can interleave
Threads == {"t1", "t2"}

\* A thread between requests.  pc is its position in the handler, phase
\* the part of the handler that accesses the lazy properties, todo the
\* properties still to access there, self the object whose property getter it
\* is in, engine what get_rag_engine() returned to it, ran the initializers
\* the request has run so far.
IdleThread ==
    [pc |-> "idle", kind |-> "none", phase |-> "none", todo |-> <<>>,
     self |-> 0, engine |-> None, ran |-> <<>>, result |-> None]

NoRequests ==
    /\ global_engine = None
    /\ engines = <<>>
    /\ threads = [t \in Threads |-> IdleThread]
    /\ requests = 0

Init ==
    /\ collection = <<>>
    /\ rag_engine = [created |-> FALSE, collection |-> FALSE, embedding_model |-> FALSE]
    /\ req = Idle
    /\ retrieved = <<>>
    /\ llm_called = FALSE
    /\ qresp = NoQueryResponse
    /\ resp = NoResponse
    /\ NoRequests
    /\ call = NoCall
    /\ ret = None

\* VectorDBIndexer.index_chunks(chunks, overwrite): chunk i of the run gets
\* the id chunk_{existing_count + i} and the metadata chunk_id i.
IndexChunks(vecs, overwrite) ==
    LET kept == IF overwrite THEN <<>> ELSE collection
        existing_count == Len(kept)
    IN /\ req.op = "none"
       /\ existing_count + Len(vecs) <= MaxEntries
       /\ collection' = kept \o
            [i \in 1 .. Len(vecs) |->
                [id |-> existing_count + (i - 1),
                 chunk_id |-> i - 1,
                 vec |-> vecs[i]]]
       /\ UNCHANGED <<rag_engine, req, retrieved, llm_called, qresp, resp,
                    call, ret, lazy_vars>>

\* get_rag_engine() and the lazy properties, as far as the request gets
\* when provider `fail` raises.
EngineAfter(fail) ==
    IF fail = "index"
    THEN IF rag_engine.created
         THEN [rag_engine EXCEPT !.embedding_model = TRUE]
         ELSE [rag_engine EXCEPT !.created = TRUE]
    ELSE IF fail = "embed"
    THEN IF rag_engine.created
         THEN rag_engine
         ELSE [rag_engine EXCEPT !.created = TRUE, !.collection = TRUE]
    ELSE [created |-> TRUE, collection |-> TRUE, embedding_model |-> TRUE]

\* /api/chat with an empty message: 400
ChatEmpty(message) ==
    /\ Strip(message) = ""
    /\ req' = [Idle EXCEPT !.op = "chat", !.question = message]
    /\ resp' = ErrorPayload(400, "Message is required")
    /\ UNCHANGED <<collection, rag_engine, retrieved, llm_called, qresp,
                 call, ret, lazy_vars>>

\* /api/chat when the index or the embedding provider raises: 500
ChatProviderError(message, fail) ==
    /\ Strip(message) # ""
    /\ fail \in {"index", "embed"}
    /\ req' = [Idle EXCEPT !.op = "chat", !.question = message,
                           !.top_k = SIMILARITY_TOP_K, !.fail = fail]
    /\ rag_engine' = EngineAfter(fail)
    /\ resp' = ErrorPayload(500, fail)
    /\ UNCHANGED <<collection, retrieved, llm_called, qresp, call, ret, lazy_vars>>

\* /api/chat served through engine.query(message)
ChatAnswered(message, qvec, fail) ==
    LET user_query == Strip(message)
        chunks == RetrieveOllama(collection, qvec, SIMILARITY_TOP_K)
        response == QueryOllama(user_query, chunks, fail)
    IN /\ user_query # ""
       /\ fail \in {"none", "generate"}
       /\ Len(qvec) = Len(ExpandOllama(user_query))
       /\ req' = [op |-> "chat", question |-> message, top_k |-> SIMILARITY_TOP_K,
                  variants |-> ExpandOllama(user_query), qvec |-> qvec, fail |-> fail]
       /\ rag_engine' = EngineAfter(fail)
       /\ retrieved' = chunks
       /\ llm_called' = response.generated
       /\ qresp' = response
       /\ resp' = ChatPayload(response)
       /\ UNCHANGED <<collection, call, ret, lazy_vars>>

Chat ==
    /\ req.op = "none"
    /\ \E message \in Messages :
        \/ ChatEmpty(message)
        \/ \E fail \in {"index", "embed"} : ChatProviderError(message, fail)
        \/ \E fail \in {"none", "generate"} :
             \E qvec \in [1 .. Len(ExpandOllama(Strip(message))) -> Vecs] :
                ChatAnswered(message, qvec, fail)

\* LegalRAGEngineOllama.retrieve(query, top_k) called directly
RetrieveOllamaCall(query, top_k, qvec) ==
    /\ req.op = "none"
    /\ req' = [op |-> "retrieve_ollama", question |-> query, top_k |-> top_k,
               variants |-> ExpandOllama(query), qvec |-> qvec, fail |-> "none"]
    /\ retrieved' = RetrieveOllama(collection, qvec, top_k)
    /\ UNCHANGED <<collection, rag_engine, llm_called, qresp, resp, call, ret, lazy_vars>>

\* LegalRAGEngine.retrieve(query, top_k) called directly
RetrieveLlamaCall(query, top_k, qvec) ==
    /\ req.op = "none"
    /\ req' = [op |-> "retrieve_llama", question |-> query, top_k |-> top_k,
               variants |-> ExpandLlama(query), qvec |-> qvec, fail |-> "none"]
    /\ retrieved' = RetrieveLlama(collection, qvec, top_k)
    /\ UNCHANGED <<collection, rag_engine, llm_called, qresp, resp, call, ret, lazy_vars>>

\* The response is handed to the caller; the request's data is dropped.
EndRequest ==
    /\ req.op # "none"
    /\ req' = Idle
    /\ retrieved' = <<>>
    /\ llm_called' = FALSE
    /\ qresp' = NoQueryResponse
    /\ resp' = NoResponse
    /\ UNCHANGED <<collection, rag_engine, call, ret, lazy_vars>>

Index ==
    \E n \in 1 .. MaxEntries : \E vecs \in [1 .. n -> Vecs] :
        \E overwrite \in BOOLEAN : IndexChunks(vecs, overwrite)

Retrieve ==
    \E query \in Questions : \E top_k \in 1 .. MaxTopK :
        \/ \E qvec \in [1 .. Len(ExpandOllama(query)) -> Vecs] :
              RetrieveOllamaCall(query, top_k, qvec)
        \/ \E qvec \in [1 .. Len(ExpandLlama(query)) -> Vecs] :
              RetrieveLlamaCall(query, top_k, qvec)

\* The served application: indexing runs and chat requests
Next == Index \/ Chat \/ EndRequest

Spec == Init /\ [][Next]_vars

\* Direct use of the two retrievers over an index
NextRetrieve == Index \/ Retrieve \/ EndRequest

SpecRetrieve == Init /\ [][NextRetrieve]_vars

----------------------------------------------------------------------------
(* get_rag_engine() and the lazy properties, statement by statement *)

served_vars == <<collection, rag_engine, req, retrieved, llm_called, qresp,
                 resp, call, ret>>

Resources == {"collection", "embedding_model"}

\* the order get_rag_engine() pre-loads in, and the order retrieve() uses
PreloadOrder == <<"collection", "embedding_model">>
QueryOrder == <<"embedding_model", "collection">>

IsNone_always(x) == TRUE

\* `x is None`
IsNone(x) == x = None

\* LegalRAGEngineOllama.__init__: both lazy attributes start as None.  loads
\* counts how often a loader's result was bound to the attribute.
NewEngine ==
    [handle |-> [r \in Resources |-> None], loads |-> [r \in Resources |-> 0]]

Constructed_ifStillNone(objects, global) ==
    IF global = None
    THEN [engines |-> Append(objects, NewEngine),
          global_engine |-> Some(Len(objects) + 1)]
    ELSE [engines |-> objects, global_engine |-> global]

\* _rag_engine = LegalRAGEngineOllama(): a new object, bound to the global
Constructed(objects, global) ==
    [engines |-> Append(objects, NewEngine),
     global_engine |-> Some(Len(objects) + 1)]

\* self._collection = ... / self._embedding_model = ...: the attribute is
\* bound to the handle this run of the loader returned
Loaded(engine, resource) ==
    [handle |-> [engine.handle EXCEPT
                    ![resource] = Some(engine.loads[resource] + 1)],
     loads |-> [engine.loads EXCEPT ![resource] = @ + 1]]

\* what the handler answers when get_rag_engine() or engine.query raises
Raised(kind) ==
    IF kind = "health" THEN [rag_ready |-> FALSE] ELSE [status |-> 500]

\* /health or /api/chat is entered; /health calls check_data_exists() first
StartRequest(t, kind, data_exists) ==
    /\ threads[t].pc = "idle"
    /\ requests < MaxRequests
    /\ requests' = requests + 1
    /\ threads' = [threads EXCEPT ![t] =
            IF kind = "health" /\ ~data_exists
            THEN [IdleThread EXCEPT !.pc = "done", !.kind = kind,
                                    !.result = Some([rag_ready |-> FALSE])]
            ELSE [IdleThread EXCEPT !.pc = "test", !.kind = kind]]
    /\ UNCHANGED <<global_engine, engines, served_vars>>

\* get_rag_engine(): if _rag_engine is None
TestEngine(t) ==
    /\ threads[t].pc = "test"
    /\ threads' = [threads EXCEPT ![t].pc =
            IF IsNone(global_engine) THEN "construct" ELSE "return"]
    /\ UNCHANGED <<global_engine, engines, requests, served_vars>>

\* get_rag_engine(): _rag_engine = LegalRAGEngineOllama()
Construct(t) ==
    LET made == Constructed(engines, global_engine)
    IN /\ threads[t].pc = "construct"
       /\ engines' = made.engines
       /\ global_engine' = made.global_engine
       /\ threads' = [threads EXCEPT ![t].pc = "access",
                                     ![t].phase = "preload",
                                     ![t].todo = PreloadOrder,
                                     ![t].ran = Append(@, "engine")]
       /\ UNCHANGED <<requests, served_vars>>

\* The next lazy property is read: _rag_engine.<property> while pre-loading,
\* self.<property> inside engine.query.  The getter tests its attribute.
Access(t) ==
    LET th == threads[t]
        self == IF th.phase = "preload" THEN global_engine[1] ELSE th.engine[1]
    IN /\ th.pc = "access"
       /\ th.todo # <<>>
       /\ threads' = [threads EXCEPT ![t] =
            IF IsNone(engines[self].handle[Head(th.todo)])
            THEN [th EXCEPT !.pc = "load", !.self = self]
            ELSE [th EXCEPT !.todo = Tail(th.todo)]]
       /\ UNCHANGED <<global_engine, engines, requests, served_vars>>

\* The getter's loader returns and its result is bound to the attribute, or
\* the loader raises and the handler answers with the failure.
Load(t, ok) ==
    LET th == threads[t]
        resource == Head(th.todo)
    IN /\ th.pc = "load"
       /\ IF ok
          THEN /\ engines' = [engines EXCEPT
                                ![th.self] = Loaded(@, resource)]
               /\ threads' = [threads EXCEPT ![t] =
                    [th EXCEPT !.pc = "access", !.todo = Tail(th.todo),
                               !.ran = Append(@, resource)]]
          ELSE /\ engines' = engines
               /\ threads' = [threads EXCEPT ![t] =
                    [th EXCEPT !.pc = "done",
                               !.result = Some(Raised(th.kind))]]
       /\ UNCHANGED <<global_engine, requests, served_vars>>

\* All properties of the phase were read: the pre-load falls through to
\* `return _rag_engine`, engine.query returns its response.
AccessDone(t) ==
    LET th == threads[t]
    IN /\ th.pc = "access"
       /\ th.todo = <<>>
       /\ threads' = [threads EXCEPT ![t] =
            IF th.phase = "preload"
            THEN [th EXCEPT !.pc = "return"]
            ELSE [th EXCEPT !.pc = "done",
                            !.result = Some([status |-> 200])]]
       /\ UNCHANGED <<global_engine, engines, requests, served_vars>>

\* get_rag_engine(): return _rag_engine.  /health answers with
\* `engine is not None`; /api/chat goes on to engine.query(message).
ReturnEngine(t) ==
    LET th == threads[t]
    IN /\ th.pc = "return"
       /\ threads' = [threads EXCEPT ![t] =
            IF th.kind = "health"
            THEN [th EXCEPT !.pc = "done", !.engine = global_engine,
                            !.result = Some([rag_ready |->
                                                ~IsNone(global_engine)])]
            ELSE [th EXCEPT !.pc = "access", !.engine = global_engine,
                            !.phase = "query", !.todo = QueryOrder]]
       /\ UNCHANGED <<global_engine, engines, requests, served_vars>>

\* The response is sent; the thread is free for the next request.
Finish(t) ==
    /\ threads[t].pc = "done"
    /\ threads' = [threads EXCEPT ![t] = IdleThread]
    /\ UNCHANGED <<global_engine, engines, requests, served_vars>>

Start(t) ==
    \E kind \in {"health", "chat"} : \E data_exists \in BOOLEAN :
        StartRequest(t, kind, data_exists)

Step(t) ==
    \/ TestEngine(t)
    \/ Construct(t)
    \/ Access(t)
    \/ \E ok \in BOOLEAN : Load(t, ok)
    \/ AccessDone(t)
    \/ ReturnEngine(t)
    \/ Finish(t)

\* no request is in flight
Quiet == \A t \in Threads : threads[t].pc = "idle"

\* Requests served one after the other
NextLazy == \E t \in Threads : (Quiet /\ Start(t)) \/ Step(t)

SpecLazy == Init /\ [][NextLazy]_vars

\* Requests served by concurrent threads, interleaved between statements
NextRace == \E t \in Threads : Start(t) \/ Step(t)

SpecRace == Init /\ [][NextRace]_vars

----------------------------------------------------------------------------
(* Text of documents and chunks: a sequence of one-character strings *)

Whitespace == {" ", "\n"}
Digits == {"4", "5"}

\* The characters texts are written in.  M stands for the header keyword in
\* capitals (MADDE), m for its capitalised form (Madde), G for the prefix of
\* a provisional article (GECICI).
Chars == {"a", ".", ":", "-", "M", "m", "G"} \cup Digits \cup Whitespace

\* All texts of at most n characters over an alphabet
Texts(alphabet, n) == UNION {[1 .. k -> alphabet] : k \in 0 .. n}

RECURSIVE LStrip(_)
LStrip(text) ==
    IF text # <<>> /\ Head(text) \in Whitespace THEN LStrip(Tail(text)) ELSE text

RECURSIVE RStrip(_)
RStrip(text) ==
    IF text # <<>> /\ text[Len(text)] \in Whitespace
    THEN RStrip(SubSeq(text, 1, Len(text) - 1))
    ELSE text

\* str.strip()
StrStrip(text) == RStrip(LStrip(text))

\* truth value of text.strip()
HasText_always(text) == TRUE

HasText(text) == StrStrip(text) # <<>>

----------------------------------------------------------------------------
(* Separators: regular expressions of fixed length, one character class    *)
(* per position, wholly inside a capturing group or without a group        *)

Sep(pattern, group) == [pattern |-> pattern, group |-> group]

HeaderSep == Sep(<<{"\n"}, {"M"}, {" "}, Digits, Whitespace>>, TRUE)  \* (\nMADDE \d+\s)
NumberedSep == Sep(<<{"\n"}, Digits>>, TRUE)         \* (\n\([1-9][0-9]*\)\s), shortened
ParagraphSep == Sep(<<{"\n"}, {"\n"}>>, FALSE)       \* "\n\n"
LineSep == Sep(<<{"\n"}>>, FALSE)                    \* "\n"
SentenceSep == Sep(<<Chars \ {"\n"}, {" "}>>, FALSE) \* ". " (the dot is a regex dot)
SpaceSep == Sep(<<{" "}>>, FALSE)                    \* " "

LEGAL_SEPARATORS ==
    <<HeaderSep, NumberedSep, ParagraphSep, LineSep, SentenceSep, SpaceSep>>

\* truth value of separator.strip(): the pattern's source has a character
\* that is not whitespace
SepNonBlank(separator) ==
    \E k \in 1 .. Len(separator.pattern) :
        ~(separator.pattern[k] \subseteq Whitespace)

MatchAt(pattern, text, pos) ==
    /\ pos + Len(pattern) - 1 <= Len(text)
    /\ \A k \in 1 .. Len(pattern) : text[pos + k - 1] \in pattern[k]

\* Start of the leftmost match at or after position from; 0 when none.
Search(pattern, text, from) ==
    LET starts == {p \in from .. Len(text) : MatchAt(pattern, text, p)}
    IN IF starts = {} THEN 0
       ELSE CHOOSE p \in starts : \A q \in starts : p <= q

\* re.split(separator, text): the spans between the matches, and with a
\* capturing group the matched texts between them.
RECURSIVE ReSplitFrom(_, _, _)
ReSplitFrom(separator, text, from) ==
    LET m == Search(separator.pattern, text, from)
        n == Len(separator.pattern)
    IN IF m = 0
       THEN <<SubSeq(text, from, Len(text))>>
       ELSE <<SubSeq(text, from, m - 1)>>
            \o (IF separator.group THEN <<SubSeq(text, m, m + n - 1)>> ELSE <<>>)
            \o ReSplitFrom(separator, text, m + n)

ReSplit(separator, text) == ReSplitFrom(separator, text, 1)

\* The positions in text at which the parts of re.split(separator, text)
\* start, part by part
RECURSIVE ReSplitStartsFrom(_, _, _)
ReSplitStartsFrom(separator, text, from) ==
    LET m == Search(separator.pattern, text, from)
        n == Len(separator.pattern)
    IN IF m = 0
       THEN <<from>>
       ELSE <<from>>
            \o (IF separator.group THEN <<m>> ELSE <<>>)
            \o ReSplitStartsFrom(separator, text, m + n)

ReSplitStarts(separator, text) == ReSplitStartsFrom(separator, text, 1)

\* re.search(separator, text).group(0): the text of the first match
SearchGroup0(separator, text) ==
    LET m == Search(separator.pattern, text, 1)
    IN SubSeq(text, m, m + Len(separator.pattern) - 1)

----------------------------------------------------------------------------
(* SimpleRecursiveSplitter *)

\* A chunk appended to the accumulator, with the place that appended it
\* ("base": the base case, at separator index sep_index; "loop": a
\* current_chunk built from parts) and the position in the text given to
\* split_text at which its span starts.
Emitted(text, site, sep_index, at) ==
    [text |-> text, site |-> site, sep_index |-> sep_index, at |-> at]

AppendChunk_front(chunks, chunk) == <<chunk>> \o chunks

\* chunks.append(chunk)
AppendChunk(chunks, chunk) == Append(chunks, chunk)

\* part_with_sep of part i (1-based) of parts
PartWithSep(separator, text, parts, i) ==
    IF i < Len(parts) /\ SepNonBlank(separator)
    THEN parts[i] \o SearchGroup0(separator, text)
    ELSE parts[i]

\* if current_chunk.strip(): chunks.append(current_chunk.strip())
Flush(chunks, current_chunk, sep_index, at) ==
    IF HasText(current_chunk)
    THEN AppendChunk(chunks,
                     Emitted(StrStrip(current_chunk), "loop", sep_index, at))
    ELSE chunks

RECURSIVE RecursiveSplit(_, _, _, _, _)
RECURSIVE SplitParts(_, _, _, _, _, _, _, _, _)

\* _recursive_split(text, sep_index, chunks); returns the accumulator.
\* offset is the number of characters of the input before text.
RecursiveSplit(self, text, sep_index, chunks, offset) ==
    IF Len(text) <= self.chunk_size \/ sep_index >= Len(self.separators)
    THEN IF HasText(text)
         THEN AppendChunk(chunks, Emitted(text, "base", sep_index, offset + 1))
         ELSE chunks
    ELSE LET parts == ReSplit(self.separators[sep_index + 1], text)
         IN IF Len(parts) = 1
            THEN RecursiveSplit(self, text, sep_index + 1, chunks, offset)
            ELSE SplitParts(self, text, sep_index, parts, 1, <<>>, chunks,
                            offset, 0)

\* the loop over parts from part i on, and the final append.  at is the
\* position in the input at which current_chunk starts (0 while it is empty).
SplitParts(self, text, sep_index, parts, i, current_chunk, chunks, offset, at) ==
    IF i > Len(parts)
    THEN Flush(chunks, current_chunk, sep_index, at)
    ELSE LET part == parts[i]
             part_with_sep ==
                PartWithSep(self.separators[sep_index + 1], text, parts, i)
             part_at == offset + ReSplitStarts(self.separators[sep_index + 1],
                                               text)[i]
         IN IF ~HasText(part)
            THEN SplitParts(self, text, sep_index, parts, i + 1,
                            current_chunk, chunks, offset, at)
            ELSE IF Len(current_chunk) + Len(part_with_sep) <= self.chunk_size
            THEN SplitParts(self, text, sep_index, parts, i + 1,
                            current_chunk \o part_with_sep, chunks, offset,
                            IF current_chunk = <<>> THEN part_at ELSE at)
            ELSE IF Len(part) > self.chunk_size
            THEN SplitParts(self, text, sep_index, parts, i + 1, <<>>,
                            RecursiveSplit(self, part, sep_index + 1,
                                Flush(chunks, current_chunk, sep_index, at),
                                part_at - 1),
                            offset, 0)
            ELSE SplitParts(self, text, sep_index, parts, i + 1, part_with_sep,
                            Flush(chunks, current_chunk, sep_index, at),
                            offset, part_at)

Splitter(chunk_size, separators) ==
    [chunk_size |-> chunk_size, separators |-> separators]

\* split_text(text), every chunk with the place that appended it
SplitEmitted(self, text) == RecursiveSplit(self, text, 0, <<>>, 0)

\* split_text(text)
SplitText(self, text) ==
    LET emitted == SplitEmitted(self, text)
    IN [i \in 1 .. Len(emitted) |-> emitted[i].text]

----------------------------------------------------------------------------
(* split_text applied to a text (SpecSplit) *)

MaxTextLen == 6      \* longest text given to split_text
MaxChunkSize == 3    \* largest chunk_size of a splitter

SplitAlphabet == {"a", ".", " ", "\n", "4"}

SeparatorLists == {LEGAL_SEPARATORS, <<SentenceSep>>}

SplitCalls ==
    {[fn |-> "split_text", chunk_size |-> chunk_size,
      separators |-> separators, text |-> text] :
        chunk_size \in 2 .. MaxChunkSize,
        separators \in SeparatorLists,
        text \in Texts(SplitAlphabet, MaxTextLen)}

InitSplit ==
    /\ collection = <<>>
    /\ rag_engine = [created |-> FALSE, collection |-> FALSE, embedding_model |-> FALSE]
    /\ req = Idle
    /\ retrieved = <<>>
    /\ llm_called = FALSE
    /\ qresp = NoQueryResponse
    /\ resp = NoResponse
    /\ NoRequests
    /\ call \in SplitCalls
    /\ ret = None

\* SimpleRecursiveSplitter(chunk_size, _, separators).split_text(text)
SplitTextCall ==
    /\ call.fn = "split_text"
    /\ ret = None
    /\ ret' = Some(SplitEmitted(Splitter(call.chunk_size, call.separators),
                                call.text))
    /\ UNCHANGED <<collection, rag_engine, req, retrieved, llm_called, qresp,
                   resp, call, lazy_vars>>

NextSplit == SplitTextCall

SpecSplit == InitSplit /\ [][NextSplit]_vars

----------------------------------------------------------------------------
(* LegalChunker.extract_article_numbers *)

\* Elements of a header pattern: one character of a class, \s* and \s+
\* (greedy runs), the group (\d+), and ^ under re.MULTILINE.
One(set) == [kind |-> "one", set |-> set]
Star(set) == [kind |-> "star", set |-> set]
Plus(set) == [kind |-> "plus", set |-> set]
Group(set) == [kind |-> "group", set |-> set]
Bol == [kind |-> "bol", set |-> {}]

\* patterns, in the order they are tried
HeaderPatterns ==
    <<<<One({"M", "m"}), Plus(Whitespace), Group(Digits)>>,
      <<One({"m"}), Star(Whitespace), One({":"}), Star(Whitespace), Group(Digits)>>,
      <<Bol, Star(Whitespace), Group(Digits), Star(Whitespace), One({"-"}),
        Star(Whitespace)>>,
      <<One({"G"}), Plus(Whitespace), One({"M"}), Plus(Whitespace), Group(Digits)>>>>

\* The position after the longest run of characters of set starting at pos
RECURSIVE RunEnd(_, _, _)
RunEnd(set, text, pos) ==
    IF pos <= Len(text) /\ text[pos] \in set THEN RunEnd(set, text, pos + 1) ELSE pos

NoMatch == [ok |-> FALSE, end |-> 0, at |-> 0, no |-> <<>>]

\* A match of elements k.. of a pattern at position pos; at and no are
\* the start and the text of group 1.
RECURSIVE MatchElems(_, _, _, _, _, _)
MatchElems(pattern, k, text, pos, at, no) ==
    IF k > Len(pattern)
    THEN [ok |-> TRUE, end |-> pos, at |-> at, no |-> no]
    ELSE LET e == pattern[k]
             run == RunEnd(e.set, text, pos)
         IN IF e.kind = "bol"
            THEN IF pos = 1 \/ text[pos - 1] = "\n"
                 THEN MatchElems(pattern, k + 1, text, pos, at, no)
                 ELSE NoMatch
            ELSE IF e.kind = "one"
            THEN IF pos <= Len(text) /\ text[pos] \in e.set
                 THEN MatchElems(pattern, k + 1, text, pos + 1, at, no)
                 ELSE NoMatch
            ELSE IF e.kind = "star"
            THEN MatchElems(pattern, k + 1, text, run, at, no)
            ELSE IF run = pos
            THEN NoMatch
            ELSE IF e.kind = "plus"
            THEN MatchElems(pattern, k + 1, text, run, at, no)
            ELSE MatchElems(pattern, k + 1, text, run, pos,
                            SubSeq(text, pos, run - 1))

\* re.finditer(pattern, text, re.MULTILINE) from position from on: the
\* non-overlapping matches, leftmost first
RECURSIVE FindIter(_, _, _)
FindIter(pattern, text, from) ==
    LET starts == {p \in from .. Len(text) :
                      MatchElems(pattern, 1, text, p, 0, <<>>).ok}
    IN IF starts = {} THEN <<>>
       ELSE LET p == CHOOSE q \in starts : \A r \in starts : q <= r
                m == MatchElems(pattern, 1, text, p, 0, <<>>)
            IN <<m>> \o FindIter(pattern, text, m.end)

\* if article_no not in seen: article_numbers.append(article_no)
RECURSIVE AppendUnseen(_, _)
AppendUnseen(article_numbers, matches) ==
    IF matches = <<>> THEN article_numbers
    ELSE AppendUnseen(
            IF \E j \in 1 .. Len(article_numbers) :
                    article_numbers[j] = Head(matches).no
            THEN article_numbers
            ELSE Append(article_numbers, Head(matches).no),
            Tail(matches))

RECURSIVE ExtractWith(_, _, _)
ExtractWith(patterns, text, article_numbers) ==
    IF patterns = <<>> THEN article_numbers
    ELSE ExtractWith(Tail(patterns), text,
            AppendUnseen(article_numbers, FindIter(Head(patterns), text, 1)))

\* extract_article_numbers(text)
ExtractArticleNumbers(text) == ExtractWith(HeaderPatterns, text, <<>>)

----------------------------------------------------------------------------
(* extract_article_numbers applied to a text (SpecExtract) *)

MaxTokens == 3       \* most header forms and words a text is made of

\* "MADDE 4", "MADDE 5", "Madde: 5", "4 - ", "5 - ", "GECICI MADDE 5",
\* a line break and a word
HeaderTokens ==
    {<<"M", " ", "4">>, <<"M", " ", "5">>, <<"m", ":", " ", "5">>,
     <<"4", " ", "-", " ">>, <<"5", " ", "-", " ">>,
     <<"G", " ", "M", " ", "5">>, <<"\n">>, <<"a", " ">>}

ExtractCalls ==
    {[fn |-> "extract_article_numbers", text |-> Flatten(tokens)] :
        tokens \in UNION {[1 .. k -> HeaderTokens] : k \in 0 .. MaxTokens}}

InitExtract ==
    /\ collection = <<>>
    /\ rag_engine = [created |-> FALSE, collection |-> FALSE, embedding_model |-> FALSE]
    /\ req = Idle
    /\ retrieved = <<>>
    /\ llm_called = FALSE
    /\ qresp = NoQueryResponse
    /\ resp = NoResponse
    /\ NoRequests
    /\ call \in ExtractCalls
    /\ ret = None

\* LegalChunker.extract_article_numbers(text)
ExtractCall ==
    /\ call.fn = "extract_article_numbers"
    /\ ret = None
    /\ ret' = Some(ExtractArticleNumbers(call.text))
    /\ UNCHANGED <<collection, rag_engine, req, retrieved, llm_called, qresp,
                   resp, call, lazy_vars>>

NextExtract == ExtractCall

SpecExtract == InitExtract /\ [][NextExtract]_vars

----------------------------------------------------------------------------
(* Documents, split_documents, enrich_metadata, chunk_documents            *)
(*                                                                         *)
(* A Document is [page_content, metadata], metadata being a reference into *)
(* the heap of dict objects; a dict is a function from its keys.           *)

SUMMARY_LEN == 100

EmptyMetadata == [k \in {} |-> 0]

SetKey(metadata, key, value) ==
    [k \in DOMAIN metadata \cup {key} |-> IF k = key THEN value ELSE metadata[k]]

\* doc.metadata.copy(): a new dict object with the same items
CopyMetadata_sameObject(heap, ref) == [heap |-> heap, ref |-> ref]

CopyMetadata(heap, ref) == [heap |-> Append(heap, heap[ref]), ref |-> Len(heap) + 1]

\* for chunk_text in text_chunks: chunked_docs.append(Document(...))
RECURSIVE AddChunks(_, _, _, _)
AddChunks(text_chunks, doc, chunked_docs, heap) ==
    IF text_chunks = <<>>
    THEN [chunks |-> chunked_docs, heap |-> heap]
    ELSE LET copy == CopyMetadata(heap, doc.metadata)
         IN AddChunks(Tail(text_chunks), doc,
                Append(chunked_docs,
                       [page_content |-> Head(text_chunks), metadata |-> copy.ref]),
                copy.heap)

RECURSIVE SplitDocumentsFrom(_, _, _, _)
SplitDocumentsFrom(self, documents, chunked_docs, heap) ==
    IF documents = <<>>
    THEN [chunks |-> chunked_docs, heap |-> heap]
    ELSE LET added == AddChunks(SplitText(self, Head(documents).page_content),
                                Head(documents), chunked_docs, heap)
         IN SplitDocumentsFrom(self, Tail(documents), added.chunks, added.heap)

\* SimpleRecursiveSplitter.split_documents(documents)
SplitDocuments(self, documents, heap) ==
    SplitDocumentsFrom(self, documents, <<>>, heap)

\* Path(source).name: the last component of a path
PathName(path) == IF path = <<>> THEN <<>> ELSE <<path[Len(path)]>>

CleanSource(metadata) ==
    IF "source" \in DOMAIN metadata
    THEN SetKey(metadata, "source", PathName(metadata["source"]))
    ELSE metadata

\* ",".join(article_numbers)
RECURSIVE JoinComma(_)
JoinComma(article_numbers) ==
    IF Len(article_numbers) <= 1 THEN Flatten(article_numbers)
    ELSE Head(article_numbers) \o <<",">> \o JoinComma(Tail(article_numbers))

TagArticles_alwaysMulti(metadata, article_numbers) ==
    IF article_numbers # <<>>
    THEN SetKey(SetKey(SetKey(metadata, "article_no", article_numbers[1]),
                       "article_numbers", JoinComma(article_numbers)),
                "multi_article", TRUE)
    ELSE metadata

TagArticles_emptyDefault(metadata, article_numbers) ==
    SetKey(metadata, "article_no",
           IF article_numbers # <<>> THEN article_numbers[1] ELSE <<>>)

\* article_no, article_numbers and multi_article of a chunk
TagArticles(metadata, article_numbers) ==
    IF article_numbers # <<>>
    THEN IF Len(article_numbers) > 1
         THEN SetKey(SetKey(SetKey(metadata, "article_no", article_numbers[1]),
                            "article_numbers", JoinComma(article_numbers)),
                     "multi_article", TRUE)
         ELSE SetKey(metadata, "article_no", article_numbers[1])
    ELSE metadata

\* page_content[:100].replace("\n", " ")
Summary(page_content) ==
    [j \in 1 .. Min(SUMMARY_LEN, Len(page_content)) |->
        IF page_content[j] = "\n" THEN " " ELSE page_content[j]]

\* one pass of the loop of enrich_metadata, i being 0-based
EnrichChunk(metadata, i, page_content) ==
    SetKey(SetKey(TagArticles(CleanSource(metadata),
                              ExtractArticleNumbers(page_content)),
                  "chunk_id", i),
           "summary", Summary(page_content))

RECURSIVE EnrichFrom(_, _, _)
EnrichFrom(chunks, i, heap) ==
    IF i > Len(chunks) THEN heap
    ELSE EnrichFrom(chunks, i + 1,
            [heap EXCEPT ![chunks[i].metadata] =
                EnrichChunk(@, i - 1, chunks[i].page_content)])

\* LegalChunker.enrich_metadata(chunks)
EnrichMetadata(chunks, heap) ==
    [chunks |-> chunks, heap |-> EnrichFrom(chunks, 1, heap)]

\* LegalChunker.chunk_documents(documents, enrich)
ChunkDocuments(self, documents, heap, enrich) ==
    LET split == SplitDocuments(self, documents, heap)
    IN IF enrich THEN EnrichMetadata(split.chunks, split.heap) ELSE split

----------------------------------------------------------------------------
(* chunk_documents applied to pages (SpecChunk) *)

MaxPages == 2        \* most pages given to chunk_documents
PageChunkSize == 8   \* chunk_size of the chunker

\* Pages: two articles, words only, one article followed by a line of
\* words, two numbers in headers of different forms, one number twice, a
\* blank page.
PageTexts ==
    {<<"M", " ", "4", " ", "a", " ", "\n", "M", " ", "5", " ", "a", " ">>,
     <<"a", "a", " ", "a", "a", " ", "a", "a", " ", "a", "a">>,
     <<"M", " ", "5", " ", "a", "a", "a", "\n", "a", "a", "a", "a">>,
     <<"5", " ", "-", " ", "M", " ", "4">>,
     <<"M", " ", "4", " ", "M", " ", "4">>,
     <<" ", "\n", " ">>}

\* The metadata load_documents_from_directory gives page number page, and
\* that of a Document built without any
PageMetadata(kind, page) ==
    IF kind = "pdf"
    THEN [k \in {"source", "page"} |->
            IF k = "source" THEN <<"data", "anayasa.pdf">> ELSE page]
    ELSE EmptyMetadata

ChunkCalls ==
    {[fn |-> "chunk_documents", chunk_size |-> PageChunkSize, enrich |-> enrich,
      documents |-> [d \in 1 .. Len(pages) |->
                        [page_content |-> pages[d], metadata |-> d]],
      heap |-> [d \in 1 .. Len(pages) |-> PageMetadata(kind, d)]] :
        enrich \in BOOLEAN, kind \in {"pdf", "bare"},
        pages \in UNION {[1 .. n -> PageTexts] : n \in 0 .. MaxPages}}

InitChunk ==
    /\ collection = <<>>
    /\ rag_engine = [created |-> FALSE, collection |-> FALSE, embedding_model |-> FALSE]
    /\ req = Idle
    /\ retrieved = <<>>
    /\ llm_called = FALSE
    /\ qresp = NoQueryResponse
    /\ resp = NoResponse
    /\ NoRequests
    /\ call \in ChunkCalls
    /\ ret = None

\* LegalChunker(chunk_size).chunk_documents(documents, enrich)
ChunkDocumentsCall ==
    /\ call.fn = "chunk_documents"
    /\ ret = None
    /\ ret' = Some(ChunkDocuments(Splitter(call.chunk_size, LEGAL_SEPARATORS),
                                  call.documents, call.heap, call.enrich))
    /\ UNCHANGED <<collection, rag_engine, req, retrieved, llm_called, qresp,
                   resp, call, lazy_vars>>

NextChunk == ChunkDocumentsCall

SpecChunk == InitChunk /\ [][NextChunk]_vars

----------------------------------------------------------------------------
(* index_chunks in batches, with its providers failing (SpecIndex) *)

MaxBatch == 2        \* largest batch_size of an indexing run

\* f"chunk_{existing_count + i}", i being 0-based
EntryId_runPosition(existing_count, i) == i

EntryId(existing_count, i) == existing_count + i

\* range(0, len(chunks), batch_size): the number of batches
BatchCount(n, batch_size) == (n + batch_size - 1) \div batch_size

AddBatches_recreate(coll, entries, batch_size, fail_batch, b, adds) ==
    [collection |-> entries,
     adds |-> <<[ids |-> [j \in 1 .. Len(entries) |-> entries[j].id],
                 stored |-> {}]>>,
     raised |-> FALSE]

\* The loop of collection.add calls from batch b on; the add of batch
\* fail_batch raises.  adds lists every add that was tried, with the ids the
\* index held when it was.
RECURSIVE AddBatches(_, _, _, _, _, _)
AddBatches(coll, entries, batch_size, fail_batch, b, adds) ==
    IF entries = <<>>
    THEN [collection |-> coll, adds |-> adds, raised |-> FALSE]
    ELSE LET batch == Take(entries, batch_size)
             tried == Append(adds,
                        [ids |-> [j \in 1 .. Len(batch) |-> batch[j].id],
                         stored |-> {coll[j].id : j \in 1 .. Len(coll)}])
         IN IF b = fail_batch
            THEN [collection |-> coll, adds |-> tried, raised |-> TRUE]
            ELSE AddBatches(coll \o batch,
                            SubSeq(entries, Len(batch) + 1, Len(entries)),
                            batch_size, fail_batch, b + 1, tried)

\* VectorDBIndexer.index_chunks(chunks, overwrite, batch_size) when the
\* embedding provider (fail_batch = 0) or the add of batch fail_batch
\* raises; fail_batch beyond the last batch is a run that completes.
IndexChunksCall(vecs, overwrite, batch_size, fail_batch) ==
    LET kept == IF overwrite THEN <<>> ELSE collection
        existing_count == Len(kept)
        entries == [i \in 1 .. Len(vecs) |->
                        [id |-> EntryId(existing_count, i - 1),
                         chunk_id |-> i - 1,
                         vec |-> vecs[i]]]
        run == IF fail_batch = 0
               THEN [collection |-> kept, adds |-> <<>>, raised |-> TRUE]
               ELSE AddBatches(kept, entries, batch_size, fail_batch, 1, <<>>)
    IN /\ req.op = "none"
       /\ call = NoCall
       /\ existing_count + Len(vecs) <= MaxEntries
       /\ collection' = run.collection
       /\ call' = [fn |-> "index_chunks", n |-> Len(vecs), overwrite |-> overwrite,
                   batch_size |-> batch_size, existing_count |-> existing_count]
       /\ ret' = Some([adds |-> run.adds, raised |-> run.raised])
       /\ UNCHANGED <<rag_engine, req, retrieved, llm_called, qresp, resp, lazy_vars>>

IndexRun ==
    \E n \in 0 .. MaxEntries : \E vec \in Vecs :
        \E overwrite \in BOOLEAN : \E batch_size \in 1 .. MaxBatch :
            \E fail_batch \in 0 .. BatchCount(n, batch_size) + 1 :
                IndexChunksCall([i \in 1 .. n |-> vec], overwrite, batch_size,
                                fail_batch)

\* The run has returned or raised; its bookkeeping is dropped.
EndCall ==
    /\ call.fn = "index_chunks"
    /\ call' = NoCall
    /\ ret' = None
    /\ UNCHANGED <<collection, rag_engine, req, retrieved, llm_called, qresp, resp, lazy_vars>>

NextIndex == IndexRun \/ EndCall

SpecIndex == Init /\ [][NextIndex]_vars

\* Indexing runs and chat requests, one at a time
ChatRequest == call = NoCall /\ Chat

NextIndexQuery == IndexRun \/ EndCall \/ ChatRequest \/ EndRequest

SpecIndexQuery == Init /\ [][NextIndexQuery]_vars

----------------------------------------------------------------------------
(* Stored metadata and the context block of generate (SpecGenerate) *)

\* str(n) of a natural number: its decimal digits
DecimalDigits == <<"0", "1", "2", "3", "4", "5", "6", "7", "8", "9">>

RECURSIVE IntStr(_)
IntStr(n) ==
    IF n < Len(DecimalDigits) THEN <<DecimalDigits[n + 1]>>
    ELSE IntStr(n \div Len(DecimalDigits))
            \o <<DecimalDigits[(n % Len(DecimalDigits)) + 1]>>

\* chunk.metadata.get(key, default)
Get(metadata, key, default) ==
    IF key \in DOMAIN metadata THEN metadata[key] ELSE default

\* The metadata index_chunks stores for chunk i (0-based) of a run
IndexMetadata(metadata, i) ==
    [source |-> Get(metadata, "source", <<>>),
     page |-> IF "page" \in DOMAIN metadata THEN IntStr(metadata["page"]) ELSE <<>>,
     article_no |-> Get(metadata, "article_no", <<>>),
     chunk_id |-> IntStr(Get(metadata, "chunk_id", i))]

\* LegalRAGEngineOllama.generate: the header of context chunk i (1-based),
\* f"[{i}] ARTICLE {article_no}:"; article is the identifier that follows
\* the word ARTICLE, None when the header carries no such word
HeaderOllama(chunk, i) ==
    [ordinal |-> Some(i),
     article |-> Some(Get(chunk.metadata, "article_no", <<"U", "n", "k", "n", "o", "w", "n">>))]

\* LegalRAGEngine.generate: "[ARTICLE {article}]" or "[SOURCE {i+1}]", i
\* being 0-based
HeaderLlama(chunk, i) ==
    LET article == Get(chunk.metadata, "article_no", <<>>)
    IN IF article # <<>>
       THEN [ordinal |-> None, article |-> Some(article)]
       ELSE [ordinal |-> Some(i + 1), article |-> None]

\* The headers of the context block, in order
ContextHeaders(engine, context_chunks) ==
    [k \in 1 .. Len(context_chunks) |->
        IF engine = "ollama"
        THEN HeaderOllama(context_chunks[k], k)
        ELSE HeaderLlama(context_chunks[k], k - 1)]

MaxContext == 3      \* most chunks handed to generate

\* Chunk texts: an article, words only, two articles, a line of words
ChunkTexts ==
    {<<"M", " ", "4", " ", "a">>, <<"a", "a", "a">>,
     <<"5", " ", "-", " ", "M", " ", "4">>, <<"a", "\n", "a">>}

\* Chunks as enrich_metadata leaves them, indexed in one run and retrieved
GenerateCalls ==
    {[fn |-> "generate", engine |-> engine,
      enriched |-> [k \in 1 .. Len(texts) |->
                      EnrichChunk(PageMetadata("pdf", 1), k - 1, texts[k])],
      context_chunks |->
          [k \in 1 .. Len(texts) |->
              [text |-> texts[k],
               metadata |-> IndexMetadata(
                    EnrichChunk(PageMetadata("pdf", 1), k - 1, texts[k]), k - 1)]]] :
        engine \in {"ollama", "llama"},
        texts \in UNION {[1 .. n -> ChunkTexts] : n \in 0 .. MaxContext}}

InitGenerate ==
    /\ collection = <<>>
    /\ rag_engine = [created |-> FALSE, collection |-> FALSE, embedding_model |-> FALSE]
    /\ req = Idle
    /\ retrieved = <<>>
    /\ llm_called = FALSE
    /\ qresp = NoQueryResponse
    /\ resp = NoResponse
    /\ NoRequests
    /\ call \in GenerateCalls
    /\ ret = None

\* generate(query, context_chunks) of either engine, up to the prompt
GenerateCall ==
    /\ call.fn = "generate"
    /\ ret = None
    /\ ret' = Some(ContextHeaders(call.engine, call.context_chunks))
    /\ UNCHANGED <<collection, rag_engine, req, retrieved, llm_called, qresp,
                   resp, call, lazy_vars>>

NextGenerate == GenerateCall

SpecGenerate == InitGenerate /\ [][NextGenerate]_vars

----------------------------------------------------------------------------
(* Source descriptors of a chat answer (SpecSources) *)

PREVIEW_LEN == 200

\* chunk['text'][:200] + "..." if len(chunk['text']) > 200 else chunk['text']
TextPreview(text) ==
    IF Len(text) > PREVIEW_LEN
    THEN Take(text, PREVIEW_LEN) \o <<".", ".", ".">>
    ELSE text

Unknown == <<"U", "n", "k", "n", "o", "w", "n">>

\* query(), step 3: the descriptor of one retrieved chunk
SourceOfChunk(chunk) ==
    [k \in {"article_no", "page", "chunk_id", "text_preview", "distance",
            "similarity"} |->
        CASE k = "article_no" -> Get(chunk.metadata, "article_no", Unknown)
          [] k = "page" -> Get(chunk.metadata, "page", Unknown)
          [] k = "chunk_id" -> Get(chunk.metadata, "chunk_id", Unknown)
          [] k = "text_preview" -> TextPreview(chunk.text)
          [] k = "distance" -> chunk.distance
          [] k = "similarity" -> Similarity(chunk.distance)]

QuerySources(chunks) == [i \in 1 .. Len(chunks) |-> SourceOfChunk(chunks[i])]

DefaultSourceFile == <<"anayasa.pdf">>

\* chat(): the formatted descriptor of one source of the response
FormattedSource(source) ==
    [source_file |-> Get(source, "source", DefaultSourceFile),
     article |-> Get(source, "article_no", <<>>),
     page |-> Get(source, "page", <<>>),
     page_number |-> Get(source, "page", <<>>),
     preview |-> Get(source, "text_preview", <<>>),
     score |-> SourceScore(source),
     similarity_score |-> SourceScore(source)]

FormattedSources(sources) ==
    [i \in 1 .. Len(sources) |-> FormattedSource(sources[i])]

\* a chunk text longer than the preview, and a short one
LongText == [i \in 1 .. PREVIEW_LEN + 1 |-> "a"]
SourceTexts == {<<"M", " ", "4", " ", "a">>, LongText}

SourceFiles == {"anayasa.pdf", "ceza.pdf"}

\* A chunk of page 1 of data/<file>, enriched, indexed as chunk i of its run
\* and retrieved at distance 0.5
RetrievedChunk(file, text, i) ==
    [text |-> text,
     metadata |-> IndexMetadata(
        EnrichChunk(SetKey(PageMetadata("pdf", 1), "source", <<"data", file>>),
                    i, text), i),
     distance |-> 5]

SourcesCalls ==
    {[fn |-> "chat_sources",
      chunks |-> [k \in 1 .. Len(picks) |->
                    RetrievedChunk(picks[k][1], picks[k][2], k - 1)]] :
        picks \in UNION {[1 .. n -> SourceFiles \X SourceTexts] :
                            n \in 0 .. MaxContext}}

InitSources ==
    /\ collection = <<>>
    /\ rag_engine = [created |-> FALSE, collection |-> FALSE, embedding_model |-> FALSE]
    /\ req = Idle
    /\ retrieved = <<>>
    /\ llm_called = FALSE
    /\ qresp = NoQueryResponse
    /\ resp = NoResponse
    /\ NoRequests
    /\ call \in SourcesCalls
    /\ ret = None

\* query() formats the retrieved chunks and chat() formats query()'s sources
ChatSourcesCall ==
    /\ call.fn = "chat_sources"
    /\ ret = None
    /\ ret' = Some(FormattedSources(QuerySources(call.chunks)))
    /\ UNCHANGED <<collection, rag_engine, req, retrieved, llm_called, qresp,
                   resp, call, lazy_vars>>

NextSources == ChatSourcesCall

SpecSources == InitSources /\ [][NextSources]_vars

----------------------------------------------------------------------------
(* Properties of the retrievers (SpecRetrieve) *)

\* The variants whose index query returned entry id, and the distances
\* those queries returned for it
HitVariants(variant_results, id) ==
    {v \in 1 .. Len(variant_results) :
        \E k \in 1 .. Len(variant_results[v]) : variant_results[v][k].id = id}

HitDistances(variant_results, id) ==
    UNION {{variant_results[v][k].distance :
                k \in {k \in 1 .. Len(variant_results[v]) :
                          variant_results[v][k].id = id}} :
           v \in 1 .. Len(variant_results)}

Smallest(S) == CHOOSE m \in S : \A x \in S : m <= x

Occurrences(list, id) == Cardinality({i \in 1 .. Len(list) : list[i].id = id})

IsRetrieve == req.op \in {"retrieve_ollama", "retrieve_llama"}

\* What the index returned to each variant of the request being served
RequestHits ==
    IF req.op = "retrieve_llama"
    THEN VariantResultsLlama(collection, req.qvec, req.top_k)
    ELSE VariantResultsOllama(collection, req.qvec, req.top_k)

\* C1 (as claimed): in the list LegalRAGEngineOllama.retrieve returns, a
\* chunk that two or more expansion variants returned occurs once and
\* carries the smallest of the distances returned for it.  (Read on the
\* chunks that are in the returned list; the cut to top_k may drop others.)
C1_OllamaKeepsSmallestDistance ==
    req.op = "retrieve_ollama" =>
        \A i \in 1 .. Len(retrieved) :
            Cardinality(HitVariants(RequestHits, retrieved[i].id)) >= 2 =>
                /\ Occurrences(retrieved, retrieved[i].id) = 1
                /\ retrieved[i].distance
                     = Smallest(HitDistances(RequestHits, retrieved[i].id))

\* C2: in the list LegalRAGEngine.retrieve returns, every index entry id
\* occurs at most once and carries the minimum distance over all variants
\* whose query returned that id.
C2_LlamaKeepsMinimumPerId ==
    req.op = "retrieve_llama" =>
        \A i \in 1 .. Len(retrieved) :
            /\ Occurrences(retrieved, retrieved[i].id) = 1
            /\ HitDistances(RequestHits, retrieved[i].id) # {}
            /\ retrieved[i].distance
                 = Smallest(HitDistances(RequestHits, retrieved[i].id))

\* C2 witness: a returned entry that two variants returned at different
\* distances, the later variant being the closer one
C2_Witness ==
    /\ req.op = "retrieve_llama"
    /\ \E i \in 1 .. Len(retrieved) :
          /\ Cardinality(HitDistances(RequestHits, retrieved[i].id)) >= 2
          /\ \E k \in 1 .. Len(RequestHits[1]) :
                /\ RequestHits[1][k].id = retrieved[i].id
                /\ RequestHits[1][k].distance > retrieved[i].distance

\* C3: the list either retriever returns is sorted ascending by distance.
C3_SortedAscending ==
    IsRetrieve =>
        \A i \in 1 .. Len(retrieved) - 1 :
            retrieved[i].distance <= retrieved[i + 1].distance

\* C3 witness: two variants contributed, and the first variant's best hit
\* is not the closest of the returned list
C3_Witness ==
    /\ IsRetrieve
    /\ Len(req.variants) >= 2
    /\ Len(retrieved) >= 2
    /\ retrieved[1].distance < retrieved[2].distance
    /\ RequestHits[1] # <<>>
    /\ RequestHits[1][1].distance > retrieved[1].distance

\* C4: the list either retriever returns has at most top_k elements.
C4_AtMostTopK ==
    IsRetrieve => (req.top_k >= 1 /\ Len(retrieved) <= req.top_k)

\* C4 witness: the variants returned more distinct entries than top_k,
\* and exactly top_k came back
C4_Witness ==
    /\ req.op = "retrieve_llama"
    /\ Len(req.variants) >= 2
    /\ Cardinality(UNION {{RequestHits[v][k].id : k \in 1 .. Len(RequestHits[v])} :
                            v \in 1 .. Len(RequestHits)}) > req.top_k
    /\ Len(retrieved) = req.top_k

Rewrites ==
    {"MADDE 76 secilme yeterliligi", "MADDE 101 cumhurbaskani secim suresi",
     "milletvekili secilme sartlari", "yas sarti secim",
     "cumhurbaskani secim usulu", "cumhurbaskani nasil belirlenir"}

\* C5: the variant list of either retriever starts with the original
\* question, every variant is embedded and queried, and whatever follows
\* the question is a canned rewrite.
C5_OriginalQuestionFirst ==
    IsRetrieve =>
        /\ Len(req.variants) >= 1
        /\ req.variants[1] = req.question
        /\ Len(req.qvec) = Len(req.variants)
        /\ Len(RequestHits) = Len(req.variants)
        /\ \A v \in 2 .. Len(req.variants) : req.variants[v] \in Rewrites

\* C5 witness: a keyword rule fired and its rewrite follows the question
C5_Witness ==
    /\ req.op = "retrieve_ollama"
    /\ Len(req.variants) = 2
    /\ req.variants[1] = req.question
    /\ req.variants[2] \in Rewrites

\* C7 (as claimed): the similarity LegalRAGEngine.retrieve attaches equals
\* clamp(1 - distance/2, 0, 1) for every distance within [0, 2].
C7_LlamaSimilarityIsHalvedAndClamped ==
    req.op = "retrieve_llama" =>
        \A i \in 1 .. Len(retrieved) :
            retrieved[i].distance \in 0 .. 20 =>
                /\ retrieved[i].similarity = 20 - retrieved[i].distance
                /\ retrieved[i].similarity >= 0

----------------------------------------------------------------------------
(* Properties of the served path (Spec) *)

ChatOk == req.op = "chat" /\ resp.status = 200

\* C6: every source's similarity and score is clamp(1 - distance/2, 0, 1)
\* of its chunk's distance: 1.0 at distance 0, 0.5 at 1, 0.0 at 2, and
\* within [0, 1] whatever the distance.
C6_ScoreIsClampedHalfDistance ==
    ChatOk =>
        /\ Len(resp.sources) = Len(retrieved)
        /\ Len(qresp.sources) = Len(retrieved)
        /\ \A i \in 1 .. Len(retrieved) :
            LET d == retrieved[i].distance
                sc == resp.sources[i].score
            IN /\ qresp.sources[i].distance = d
               /\ qresp.sources[i].similarity = sc
               /\ resp.sources[i].similarity_score = sc
               /\ sc \in 0 .. 20
               /\ (d < 0 => sc = 20)
               /\ (d \in 0 .. 20 => sc = 20 - d)
               /\ (d > 20 => sc = 0)

\* C6 witness: one answer with sources at distance 0, 1 and 2
C6_Witness ==
    /\ ChatOk
    /\ \E i, j, k \in 1 .. Len(retrieved) :
          /\ retrieved[i].distance = 0 /\ resp.sources[i].score = 20
          /\ retrieved[j].distance = 10 /\ resp.sources[j].score = 10
          /\ retrieved[k].distance = 20 /\ resp.sources[k].score = 0

\* Every variant's index query came back empty
NoHits == \A v \in 1 .. Len(req.qvec) :
              CollectionQuery(collection, req.qvec[v], req.top_k) = <<>>

\* C8: when the index returns nothing for every variant, retrieve returns
\* the empty list and the request is answered (no error) with no sources
\* and the fixed no-grounding text, the generation provider not invoked.
C8_EmptyIndexNoGrounding ==
    (req.op = "chat" /\ Strip(req.question) # ""
        /\ req.fail \notin {"index", "embed"} /\ NoHits) =>
        /\ retrieved = <<>>
        /\ qresp.sources = <<>>
        /\ qresp.answer = NoGroundingAnswer
        /\ resp.status = 200
        /\ resp.sources = <<>>
        /\ resp.answer = NoGroundingAnswer
        /\ ~llm_called

\* C8 witness: a question with a rewrite asked of an empty index, while
\* the generation provider is down
C8_Witness ==
    /\ req.op = "chat"
    /\ Len(req.variants) = 2
    /\ req.fail = "generate"
    /\ collection = <<>>
    /\ resp.status = 200

ScoreSum == SumSeq([i \in 1 .. Len(resp.sources) |-> resp.sources[i].score])

\* C9: confidence is the mean score as a truncated integer percentage
\* ([0.9, 0.9] gives 90, [0.2, 0.1] gives 15), and it is None exactly when
\* there are no sources.
C9_ConfidenceIsTruncatedMeanPercent ==
    /\ ChatOk =>
        /\ (resp.confidence = None) <=> (resp.sources = <<>>)
        /\ resp.sources # <<>> =>
            LET n == Len(resp.sources)
                c == resp.confidence[1]
            IN /\ Len(resp.confidence) = 1
               /\ c \in 0 .. 100
               /\ c * 20 * n <= 100 * ScoreSum
               /\ 100 * ScoreSum < (c + 1) * 20 * n
    /\ Confidence(<<[score |-> 18], [score |-> 18]>>) = Some(90)
    /\ Confidence(<<[score |-> 4], [score |-> 2]>>) = Some(15)

\* C9 witness: a mean that is not a whole percentage (2/3 gives 66)
C9_Witness ==
    /\ ChatOk
    /\ Len(resp.sources) = 3
    /\ ScoreSum = 40
    /\ resp.confidence = Some(66)

\* C10: low_confidence holds exactly when confidence is defined and below
\* 50, and the warning is present exactly when low_confidence holds.
C10_LowConfidenceBelowFifty ==
    ChatOk =>
        /\ resp.low_confidence <=>
              (resp.confidence # None /\ resp.confidence[1] < 50)
        /\ (resp.warning # None) <=> resp.low_confidence
        /\ resp.warning # None => resp.warning = Some(LowConfidenceWarning)

\* C10 witness: confidence exactly 50 is not low and carries no warning
C10_Witness ==
    /\ ChatOk
    /\ resp.confidence = Some(50)
    /\ ~resp.low_confidence
    /\ resp.warning = None

\* C11 (as claimed): when a provider (index, embedding or generation)
\* raises during a chat request, the caller receives a single error payload
\* and never a normal answer payload with answer text, sources and
\* confidence.  The generation provider is consulted only when chunks were
\* retrieved.
C11_ProviderFailureGivesErrorPayload ==
    (req.op = "chat" /\ Strip(req.question) # ""
        /\ (req.fail \in {"index", "embed"}
            \/ (req.fail = "generate" /\ retrieved # <<>>))) =>
        /\ resp.status = 500
        /\ DOMAIN resp = {"status", "error"}

----------------------------------------------------------------------------
(* Properties of split_text (SpecSplit) *)

SplitReturned == call.fn = "split_text" /\ ret # None

\* The characters of a text that are not whitespace, in order
NonWhitespace(text) == SelectSeq(text, LAMBDA c : c \notin Whitespace)

\* The texts of the returned chunks, concatenated
ReturnedText == Flatten([i \in 1 .. Len(ret[1]) |-> ret[1][i].text])

\* The chunk was appended by the base case after every separator had been
\* tried on a span longer than chunk_size.
NoSeparatorLeft(chunk) ==
    chunk.site = "base" /\ chunk.sep_index >= Len(call.separators)

\* C12 (as claimed): every returned chunk has length <= chunk_size unless
\* it was emitted because no separators remained for an oversized span; a
\* chunk built by accumulating parts with the separator re-attached never
\* exceeds chunk_size.
C12_ChunkWithinChunkSize ==
    SplitReturned =>
        \A i \in 1 .. Len(ret[1]) :
            Len(ret[1][i].text) <= call.chunk_size \/ NoSeparatorLeft(ret[1][i])

\* C13 (as claimed): the non-whitespace characters of the returned chunks,
\* concatenated in order, are exactly the non-whitespace characters of the
\* input: none dropped, replaced or duplicated.
C13_NonWhitespaceCoverage ==
    SplitReturned => NonWhitespace(ReturnedText) = NonWhitespace(call.text)

\* C14: no returned chunk is empty or whitespace-only, and an empty or
\* all-whitespace text gives the empty list.
C14_NoBlankChunk ==
    SplitReturned =>
        /\ \A i \in 1 .. Len(ret[1]) : StrStrip(ret[1][i].text) # <<>>
        /\ StrStrip(call.text) = <<>> => ret[1] = <<>>

\* C14 witness: a whitespace-only text longer than chunk_size, split at
\* its separators, gives no chunk
C14_Witness ==
    /\ SplitReturned
    /\ Len(call.text) > call.chunk_size
    /\ StrStrip(call.text) = <<>>
    /\ ret[1] = <<>>

----------------------------------------------------------------------------
(* Properties of extract_article_numbers (SpecExtract) *)

ExtractReturned == call.fn = "extract_article_numbers" /\ ret # None

\* Every header of the text: where its number stands and the number
Mentions ==
    UNION {{[at |-> FindIter(HeaderPatterns[k], call.text, 1)[j].at,
             no |-> FindIter(HeaderPatterns[k], call.text, 1)[j].no] :
                j \in 1 .. Len(FindIter(HeaderPatterns[k], call.text, 1))} :
           k \in 1 .. Len(HeaderPatterns)}

\* Where a number is first seen in the text
FirstSeenAt(no) ==
    CHOOSE p \in {m.at : m \in {x \in Mentions : x.no = no}} :
        \A m \in Mentions : m.no = no => p <= m.at

\* C15 (as claimed): the result holds every distinct article number of the
\* text exactly once, ordered by where each number is first seen in the
\* text, also when the numbers are matched by different header patterns.
C15_DistinctInTextOrder ==
    ExtractReturned =>
        /\ {ret[1][i] : i \in 1 .. Len(ret[1])} = {m.no : m \in Mentions}
        /\ \A i, j \in 1 .. Len(ret[1]) :
              i < j => /\ ret[1][i] # ret[1][j]
                       /\ FirstSeenAt(ret[1][i]) < FirstSeenAt(ret[1][j])

----------------------------------------------------------------------------
(* Properties of enrich_metadata and chunk_documents (SpecChunk) *)

Enriched == call.fn = "chunk_documents" /\ call.enrich /\ ret # None

\* What split_documents handed to enrich_metadata
RawChunks ==
    SplitDocuments(Splitter(call.chunk_size, LEGAL_SEPARATORS),
                   call.documents, call.heap).chunks

\* The metadata of the i-th returned chunk
MetadataOf(i) == ret[1].heap[ret[1].chunks[i].metadata]

\* The article numbers of the i-th returned chunk's text
NumbersOf(i) == ExtractArticleNumbers(ret[1].chunks[i].page_content)

\* C16: article_no is present exactly when at least one number was found
\* and is then the first one; article_numbers and multi_article are both
\* present exactly when more than one distinct number was found (the
\* comma-joined list and True); with exactly one number neither is present.
C16_ArticleKeys ==
    Enriched =>
        \A i \in 1 .. Len(ret[1].chunks) :
            LET metadata == MetadataOf(i)
                numbers == NumbersOf(i)
            IN /\ ("article_no" \in DOMAIN metadata) <=> (Len(numbers) >= 1)
               /\ Len(numbers) >= 1 => metadata["article_no"] = numbers[1]
               /\ ("article_numbers" \in DOMAIN metadata) <=> (Len(numbers) > 1)
               /\ ("multi_article" \in DOMAIN metadata) <=> (Len(numbers) > 1)
               /\ Len(numbers) > 1 =>
                    /\ metadata["multi_article"] = TRUE
                    /\ metadata["article_numbers"] = JoinComma(numbers)

\* C16 witness: one run returns a chunk with no number, a chunk with
\* exactly one and a chunk with two
C16_Witness ==
    /\ Enriched
    /\ \E i, j, k \in 1 .. Len(ret[1].chunks) :
          /\ Len(NumbersOf(i)) = 0
          /\ Len(NumbersOf(j)) = 1
          /\ "article_numbers" \notin DOMAIN MetadataOf(j)
          /\ Len(NumbersOf(k)) = 2
          /\ "article_numbers" \in DOMAIN MetadataOf(k)

\* C17: enrich_metadata returns the chunks it was given, in the same
\* order, and a chunk with no article number has chunk_id and summary set
\* and no article_no key.
C17_ChunkWithoutArticleKept ==
    Enriched =>
        /\ Len(ret[1].chunks) = Len(RawChunks)
        /\ \A i \in 1 .. Len(RawChunks) :
              /\ ret[1].chunks[i].page_content = RawChunks[i].page_content
              /\ NumbersOf(i) = <<>> =>
                    /\ "chunk_id" \in DOMAIN MetadataOf(i)
                    /\ "summary" \in DOMAIN MetadataOf(i)
                    /\ "article_no" \notin DOMAIN MetadataOf(i)

\* C17 witness: a chunk without article number between two chunks with one
C17_Witness ==
    /\ Enriched
    /\ \E i \in 2 .. Len(ret[1].chunks) - 1 :
          /\ NumbersOf(i - 1) # <<>>
          /\ NumbersOf(i) = <<>>
          /\ NumbersOf(i + 1) # <<>>
          /\ MetadataOf(i)["chunk_id"] = i - 1

\* C18: chunk_id is the chunk's 0-based position in the enrichment pass, so
\* the chunk_ids of one run are pairwise distinct and range over 0..n-1;
\* no two chunks share a metadata record, and none shares its page's.
C18_ChunkIdIsPosition ==
    Enriched =>
        /\ \A i \in 1 .. Len(ret[1].chunks) : MetadataOf(i)["chunk_id"] = i - 1
        /\ \A i, j \in 1 .. Len(ret[1].chunks) :
              i # j => ret[1].chunks[i].metadata # ret[1].chunks[j].metadata
        /\ \A i \in 1 .. Len(ret[1].chunks) :
              \A d \in 1 .. Len(call.documents) :
                 ret[1].chunks[i].metadata # call.documents[d].metadata

\* C18 witness: two pages, the first split into several chunks
C18_Witness ==
    /\ Enriched
    /\ Len(call.documents) = 2
    /\ "page" \in DOMAIN call.heap[1]
    /\ \E i, j, k \in 1 .. Len(ret[1].chunks) :
          /\ i < j /\ j < k
          /\ MetadataOf(i)["page"] = 1 /\ MetadataOf(j)["page"] = 1
          /\ MetadataOf(k)["page"] = 2
          /\ MetadataOf(k)["chunk_id"] = k - 1

----------------------------------------------------------------------------
(* Properties of index_chunks (SpecIndex) *)

\* The ids the run tried to add, in order
TriedIds == Flatten([b \in 1 .. Len(ret[1].adds) |-> ret[1].adds[b].ids])

\* C19: after any sequence of index_chunks calls, failed ones included, the
\* ids of the index are pairwise distinct and no add is tried with an id
\* the index already holds: an appending run uses the ids c .. c+n-1, c
\* being the entry count at its start.
C19_IdsDistinct ==
    /\ \A i, j \in 1 .. Len(collection) :
          i # j => collection[i].id # collection[j].id
    /\ call.fn = "index_chunks" =>
          /\ \A b \in 1 .. Len(ret[1].adds) :
                \A j \in 1 .. Len(ret[1].adds[b].ids) :
                    ret[1].adds[b].ids[j] \notin ret[1].adds[b].stored
          /\ \A k \in 1 .. Len(TriedIds) :
                TriedIds[k] = call.existing_count + (k - 1)
          /\ Len(TriedIds) <= call.n
          /\ ~ret[1].raised => Len(TriedIds) = call.n

\* C19 witness: an appending run onto a non-empty index whose second add
\* raises after the first went through
C19_Witness ==
    /\ call.fn = "index_chunks"
    /\ ~call.overwrite
    /\ call.existing_count > 0
    /\ ret[1].raised
    /\ Len(ret[1].adds) = 2
    /\ Len(collection) = call.existing_count + call.batch_size

----------------------------------------------------------------------------
(* Properties of the context block (SpecGenerate) *)

\* C20 (as claimed): in the context block of either engine a chunk is
\* labelled by its primary article identifier when it has one and by its
\* ordinal position when it has none; a chunk indexed without an article
\* number is never given an article label.
C20_ArticleOrOrdinalLabel ==
    (call.fn = "generate" /\ ret # None) =>
        \A k \in 1 .. Len(call.context_chunks) :
            IF "article_no" \in DOMAIN call.enriched[k]
            THEN ret[1][k].article = Some(call.enriched[k]["article_no"])
            ELSE /\ ret[1][k].article = None
                 /\ ret[1][k].ordinal = Some(k)

----------------------------------------------------------------------------
(* Properties of lazy initialization (SpecLazy, SpecRace) *)

\* whether resource r of engine object e is bound to a handle
IsLoaded(e, r) == engines[e].handle[r] # None

\* C21: when requests are served one after the other, the engine instance,
\* the index connection and the embedding model are each initialized at most
\* once after an initialization has succeeded: no step rebinds _rag_engine or
\* a loaded attribute or runs a loader for it again, a single engine object
\* is ever constructed, and every get_rag_engine() call returns it.
C21_InitializedOnce ==
    [][ /\ global_engine # None => global_engine' = global_engine
        /\ Len(engines') <= 1
        /\ \A e \in DOMAIN engines : \A r \in Resources :
              IsLoaded(e, r) =>
                 /\ engines'[e].handle[r] = engines[e].handle[r]
                 /\ engines'[e].loads[r] = engines[e].loads[r]
                 /\ \A t \in Threads :
                       ~(/\ threads'[t].pc = "load"
                         /\ threads'[t].self = e
                         /\ Head(threads'[t].todo) = r)
        /\ \A t \in Threads :
              threads'[t].engine # None => threads'[t].engine = global_engine'
      ]_vars

\* a later chat request was answered on the one engine without running any
\* initializer
C21_Witness ==
    \E t \in Threads :
        /\ threads[t].pc = "done"
        /\ threads[t].kind = "chat"
        /\ threads[t].result = Some([status |-> 200])
        /\ threads[t].ran = <<>>
        /\ Len(engines) = 1
        /\ \A r \in Resources : engines[1].loads[r] = 1

\* C22: /health reports rag_ready = true only if the engine's index
\* collection and embedding model have been loaded.
C22_ReadyOnlyIfLoaded ==
    \A t \in Threads :
        (/\ threads[t].kind = "health"
         /\ threads[t].result = Some([rag_ready |-> TRUE]))
        => /\ global_engine # None
           /\ \A r \in Resources : IsLoaded(global_engine[1], r)

\* C30: nothing stands between the test of a lazy initializer and its
\* assignment: a thread that found _rag_engine None constructs and binds a
\* new engine whatever happened since its test, and a thread that found a
\* lazy attribute None binds a newly loaded handle to it.
C30_InitializersUnguarded ==
    [][ \A t \in Threads :
          /\ (threads[t].pc = "construct" /\ threads'[t].pc = "access")
                => /\ Len(engines') = Len(engines) + 1
                   /\ global_engine' = Some(Len(engines'))
          /\ (threads[t].pc = "load" /\ threads'[t].pc = "access")
                => LET e == threads[t].self
                       r == Head(threads[t].todo)
                   IN engines'[e].loads[r] = engines[e].loads[r] + 1
      ]_vars

\* two concurrent first requests each ran the constructor and were returned
\* different engine objects
C30_Witness ==
    \E t, u \in Threads :
        /\ t # u
        /\ threads[t].engine # None
        /\ threads[u].engine # None
        /\ threads[t].engine # threads[u].engine
        /\ threads[t].ran # <<>> /\ Head(threads[t].ran) = "engine"
        /\ threads[u].ran # <<>> /\ Head(threads[u].ran) = "engine"
        /\ Len(engines) = 2

----------------------------------------------------------------------------
(* Properties of stored and reported metadata (SpecGenerate, SpecSources) *)

\* C23: a chunk that enrichment flagged as spanning several articles keeps
\* its article_numbers list and its multi_article flag in the metadata of
\* the index entry, which is the metadata of the retrieved chunk.
C23_MultiArticleKeysStored ==
    (call.fn = "generate" /\ ret # None) =>
        \A k \in 1 .. Len(call.enriched) :
            "multi_article" \in DOMAIN call.enriched[k] =>
                LET stored == call.context_chunks[k].metadata
                IN /\ "article_numbers" \in DOMAIN stored
                   /\ stored["article_numbers"] = call.enriched[k]["article_numbers"]
                   /\ "multi_article" \in DOMAIN stored
                   /\ stored["multi_article"] = call.enriched[k]["multi_article"]

\* C24: the payload of /api/chat has one source descriptor per retrieved
\* chunk, in the chunks' order, and each carries its chunk's stored source
\* file name, article number and page, and the preview of its text.
C24_DescriptorOfItsChunk ==
    (call.fn = "chat_sources" /\ ret # None) =>
        /\ Len(ret[1]) = Len(call.chunks)
        /\ \A k \in 1 .. Len(call.chunks) :
              LET chunk == call.chunks[k]
                  descriptor == ret[1][k]
              IN /\ descriptor.source_file = chunk.metadata.source
                 /\ descriptor.article = chunk.metadata.article_no
                 /\ descriptor.page = chunk.metadata.page
                 /\ descriptor.preview = TextPreview(chunk.text)

----------------------------------------------------------------------------
(* Properties of the index as a store (SpecIndexQuery) *)

\* the number of entries a run's adds put into the index: those of every
\* add but the one that raised
AddedBy(run) ==
    LET done == IF run.raised /\ run.adds # <<>>
                THEN SubSeq(run.adds, 1, Len(run.adds) - 1)
                ELSE run.adds
    IN Len(Flatten([b \in 1 .. Len(done) |-> done[b].ids]))

\* C25: an index_chunks run with overwrite = false leaves every entry the
\* index held as it was (id, embedding, metadata) and at its position, and
\* the entry count grows by exactly the number of chunks its adds put in,
\* all n chunks when the run completes; a chat request, which retrieves and
\* generates, leaves the index as it was.
C25_AppendOnlyIndex ==
    [][ /\ (call.fn = "none" /\ call'.fn = "index_chunks" /\ ~call'.overwrite)
            => /\ Len(collection') = Len(collection) + AddedBy(ret'[1])
               /\ SubSeq(collection', 1, Len(collection)) = collection
               /\ ~ret'[1].raised => Len(collection') = Len(collection) + call'.n
        /\ (req.op = "none" /\ req'.op = "chat") => collection' = collection
      ]_vars

\* an appending run of n > 0 chunks completed on an index that held entries
C25_Witness ==
    /\ call.fn = "index_chunks"
    /\ ~call.overwrite
    /\ call.existing_count > 0
    /\ call.n > 0
    /\ ~ret[1].raised
    /\ Len(collection) = call.existing_count + call.n

----------------------------------------------------------------------------
(* Properties of the splitter's recursion (SpecSplit) *)

\* The index of the separator split_text splits the text at first: the
\* separators before it do not occur in the text.  -1 when the text is
\* emitted by the base case.
RECURSIVE SplittingIndex(_, _, _)
SplittingIndex(self, text, sep_index) ==
    IF Len(text) <= self.chunk_size \/ sep_index >= Len(self.separators)
    THEN -1
    ELSE IF Len(ReSplit(self.separators[sep_index + 1], text)) = 1
    THEN SplittingIndex(self, text, sep_index + 1)
    ELSE sep_index

\* C26 (as claimed): when the text is split at a separator whose text is
\* re-attached, each part is followed by the separator occurrence that
\* delimited it and each occurrence is attached once, so that the parts
\* with their separators, in order, spell the text.
C26_OwnSeparatorReattached ==
    SplitReturned =>
        LET self == Splitter(call.chunk_size, call.separators)
            sep_index == SplittingIndex(self, call.text, 0)
            separator == call.separators[sep_index + 1]
            parts == ReSplit(separator, call.text)
        IN (sep_index >= 0 /\ SepNonBlank(separator)) =>
              Flatten([i \in 1 .. Len(parts) |->
                          PartWithSep(separator, call.text, parts, i)])
                 = call.text

\* C27 (as claimed): every returned chunk is whitespace-trimmed, whether the
\* base case or a flush of the accumulator appended it.
C27_ChunksTrimmed ==
    SplitReturned =>
        \A i \in 1 .. Len(ret[1]) : StrStrip(ret[1][i].text) = ret[1][i].text

\* every chunk was appended by a call whose separator index is in range:
\* the nesting depth, sep_index + 1, is at most the number of separators
\* plus one, and only the base case runs at the last depth
DepthBounded ==
    \A i \in 1 .. Len(ret[1]) :
        /\ ret[1][i].sep_index + 1 <= Len(call.separators) + 1
        /\ ret[1][i].site = "loop" => ret[1][i].sep_index < Len(call.separators)

\* the chunks are in the order in which their spans start in the input
InSourceOrder ==
    \A i, j \in 1 .. Len(ret[1]) : i < j => ret[1][i].at < ret[1][j].at

\* C28: when split_text has returned, the calls that appended its chunks
\* were nested at most number of separators plus one deep, each recursive
\* call having been made with the next separator index, and the chunks are
\* in the order of their source spans.  (That it returns is the evaluation
\* of SplitEmitted to a value, for every text and separator list.)
C28_DepthBoundedInOrder == SplitReturned => (DepthBounded /\ InSourceOrder)

\* C28 witness: a chunk flushed by the loop is followed by one that the
\* recursion carried past every remaining separator to the last depth
C28_Witness ==
    /\ SplitReturned
    /\ \E i, j \in 1 .. Len(ret[1]) :
          /\ i < j
          /\ ret[1][i].site = "loop"
          /\ ret[1][j].site = "base"
          /\ ret[1][j].sep_index = Len(call.separators)
          /\ ret[1][j].sep_index > ret[1][i].sep_index + 1

----------------------------------------------------------------------------
(* Properties of the deduplication key (SpecRetrieve) *)

\* the ids of the index entries that some variant's query returned
HitIds ==
    UNION {{RequestHits[v][k].id : k \in 1 .. Len(RequestHits[v])} :
           v \in 1 .. Len(RequestHits)}

\* C29 (as claimed): after any sequence of index_chunks runs two distinct
\* index entries never share the deduplication key (the metadata chunk_id),
\* so LegalRAGEngineOllama.retrieve drops no entry for another one seen
\* earlier: every entry the variant queries returned is in the result, up
\* to the cut to top_k.
C29_DistinctEntriesDistinctKeys ==
    /\ \A i, j \in 1 .. Len(collection) :
          i # j => collection[i].chunk_id # collection[j].chunk_id
    /\ req.op = "retrieve_ollama" =>
          Len(retrieved) = Min(req.top_k, Cardinality(HitIds))

====
